---- MODULE Spec2Model ----
(***************************************************************************)
(* Model of the probability engine of ygo_calc.py: hypergeom_pmf, the      *)
(* "At least k" summation of the hypergeometric calculator, and the two    *)
(* Monte Carlo routines monte_carlo_simulation and                         *)
(* simulate_playable_hands_advanced.                                       *)
(*                                                                         *)
(* Python floats are modelled as exact reduced fractions [num, den] with   *)
(* den > 0; a raised exception is modelled as a result whose err field     *)
(* names the exception.                                                    *)
(***************************************************************************)
EXTENDS Integers, Sequences, FiniteSets

\* ---------------------------------------------------------------- bounds
MaxN == 6        \* k, K, n, N of the hypergeometric calculator range over 0..MaxN
MaxCount == 2    \* largest count of one card type in a deck
MaxHand == 2     \* largest hand_size of a Monte Carlo call
MaxDraws == 2    \* largest num_draws of a Monte Carlo call
MaxCt == 1       \* largest min / max of a constraint

NOTES == "_notes"
CardTypes == {"A", "B"}

VARIABLES
    fn,              \* the routine being run
    pc,              \* "call", "loop", "done"
    k, K, N,         \* inputs of the hypergeometric calculator (n is hand_size)
    deck,            \* the deck dict: card type -> count, maybe "_notes" -> text
    hand_size,       \* n
    num_draws,       \* m
    constraints,     \* the constraints dict, in insertion order: <<ctype, min, max>>
    deck_list,       \* the sampling pool: card type -> number of physical copies
    total_deck_size,
    i,               \* iterations of the sampling loop completed
    results,         \* Counter of monte_carlo_simulation
    valid_count,
    hands,           \* the hand_counts produced by random.sample so far
    ret              \* the outcome of the call

vars == <<fn, pc, k, K, N, deck, hand_size, num_draws, constraints,
          deck_list, total_deck_size, i, results, valid_count, hands, ret>>

\* ------------------------------------------------------- float arithmetic
Abs(x) == IF x < 0 THEN 0 - x ELSE x

RECURSIVE GCD(_, _)
GCD(a, b) == IF b = 0 THEN a ELSE GCD(b, a % b)

\* the float num / den (den # 0), as a reduced fraction with den > 0
Frac(num, den) ==
    LET g == GCD(Abs(num), Abs(den))
        s == IF den < 0 THEN 0 - 1 ELSE 1
    IN  [num |-> (s * num) \div g, den |-> (s * den) \div g]

FZero == [num |-> 0, den |-> 1]
FOne == [num |-> 1, den |-> 1]
FAdd(x, y) == Frac(x.num * y.den + y.num * x.den, x.den * y.den)
FMul(x, y) == Frac(x.num * y.num, x.den * y.den)
FLeq(x, y) == x.num * y.den <= y.num * x.den

\* --------------------------------------------------------------- results
Ok(v) == [err |-> "none", val |-> v]
Raise(e) == [err |-> e, val |-> <<>>]
Pending == [err |-> "pending", val |-> <<>>]

\* int / int: ZeroDivisionError when the divisor is 0
TrueDiv(a, b) == IF b = 0 THEN Raise("ZeroDivisionError") ELSE Ok(Frac(a, b))

\* ------------------------------------------------------------- math.comb
RECURSIVE Factorial(_)
Factorial(x) == IF x <= 0 THEN 1 ELSE x * Factorial(x - 1)

\* math.comb(a, b): ValueError for a negative argument, 0 when b > a
CombRaises(a, b) == a < 0 \/ b < 0
Comb(a, b) == IF b > a THEN 0 ELSE Factorial(a) \div (Factorial(b) * Factorial(a - b))

\* --------------------------------------------------------- hypergeom_pmf
hypergeom_pmf_noKnCheck(k_, K_, n_, N_) ==
    IF k_ > K_ \/ n_ > N_ THEN Ok(FZero)
    ELSE IF CombRaises(K_, k_) \/ CombRaises(N_ - K_, n_ - k_) \/ CombRaises(N_, n_)
         THEN Raise("ValueError")
         ELSE TrueDiv(Comb(K_, k_) * Comb(N_ - K_, n_ - k_), Comb(N_, n_))

hypergeom_pmf_dropFactor(k_, K_, n_, N_) ==
    IF k_ > K_ \/ k_ > n_ \/ n_ > N_ THEN Ok(FZero)
    ELSE IF CombRaises(K_, k_) \/ CombRaises(N_ - K_, n_ - k_) \/ CombRaises(N_, n_)
         THEN Raise("ValueError")
         ELSE TrueDiv(Comb(K_, k_) * Comb(N_ - K_, n_), Comb(N_, n_))

hypergeom_pmf(k_, K_, n_, N_) ==
    IF k_ > K_ \/ k_ > n_ \/ n_ > N_ THEN Ok(FZero)
    ELSE IF CombRaises(K_, k_) \/ CombRaises(N_ - K_, n_ - k_) \/ CombRaises(N_, n_)
         THEN Raise("ValueError")
         ELSE TrueDiv(Comb(K_, k_) * Comb(N_ - K_, n_ - k_), Comb(N_, n_))

\* --------------------------------------------- "At least k" (main, 424-426)
Min(a, b) == IF a < b THEN a ELSE b

\* p_at_least after the iterations kk = lo .. hi, started from acc
RECURSIVE SumPmf(_, _, _, _, _, _)
SumPmf(acc, lo, hi, K_, n_, N_) ==
    IF lo > hi THEN Ok(acc)
    ELSE LET p == hypergeom_pmf(lo, K_, n_, N_)
         IN  IF p.err # "none" THEN p
             ELSE SumPmf(FAdd(acc, p.val), lo + 1, hi, K_, n_, N_)

AtLeastK_atMost(k_, K_, n_, N_) == SumPmf(FZero, 0, k_, K_, n_, N_)

AtLeastK(k_, K_, n_, N_) == SumPmf(FZero, k_, Min(K_, n_), K_, n_, N_)

\* ------------------------------------------------------ decks and sampling
EmptyMap == [c \in {} |-> 0]

RECURSIVE SumOver(_, _)
SumOver(f, S) ==
    IF S = {} THEN 0
    ELSE LET c == CHOOSE x \in S : TRUE IN f[c] + SumOver(f, S \ {c})

\* the card types of a deck: its keys other than "_notes"
Cards(d) == DOMAIN d \ {NOTES}

\* deck_list, kept as copies per card type: range(count) is empty for count <= 0
DeckList(d) == [c \in Cards(d) |-> IF d[c] > 0 THEN d[c] ELSE 0]

TotalDeckSize(d) == SumOver(d, Cards(d))

Len_deck_list(pool) == SumOver(pool, DOMAIN pool)

\* random.sample(deck_list, n) raises ValueError for n < 0 or n > len(deck_list)
SampleRaises(pool, n_) == n_ < 0 \/ n_ > Len_deck_list(pool)

\* Counter(hand): only the card types drawn are keys
AsCounter(g) == [c \in {x \in DOMAIN g : g[x] > 0} |-> g[c]]

\* the possible values of Counter(random.sample(deck_list, n))
Samples(pool, n_) ==
    {AsCounter(g) : g \in {f \in [DOMAIN pool -> 0..n_] :
                              /\ \A c \in DOMAIN pool : f[c] <= pool[c]
                              /\ SumOver(f, DOMAIN pool) = n_}}

\* Counter.get(c, 0) / dict.get(c, 0)
Get(h, c) == IF c \in DOMAIN h THEN h[c] ELSE 0

\* results[card] += count for every card of hand_counts (lines 78-79)
AddCounts_overwrite(res, h) ==
    [c \in DOMAIN res \cup DOMAIN h |-> IF c \in DOMAIN h THEN h[c] ELSE res[c]]

AddCounts(res, h) ==
    [c \in DOMAIN res \cup DOMAIN h |-> Get(res, c) + Get(h, c)]

\* -------------------------------------------- constraint check (110-116)
\* not (min_ct <= c_count <= max_ct) is the negation of this
InRange_strictMax(min_ct, c_count, max_ct) == min_ct <= c_count /\ c_count < max_ct

InRange(min_ct, c_count, max_ct) == min_ct <= c_count /\ c_count <= max_ct

\* is_valid after the constraints cs[idx], cs[idx+1], ... taken in dict order,
\* stopping at the first one that fails
RECURSIVE IsValid(_, _, _)
IsValid(cs, idx, hand_counts) ==
    IF idx > Len(cs) THEN TRUE
    ELSE IF ~InRange(cs[idx][2], Get(hand_counts, cs[idx][1]), cs[idx][3]) THEN FALSE
    ELSE IsValid(cs, idx + 1, hand_counts)

\* the pre-check of simulate_playable_hands_advanced (line 101)
HandTooLarge_lenCheck(h, total) == h > Len_deck_list(DeckList(deck))

HandTooLarge(h, total) == h > total

\* ------------------------------------------- averages (lines 81-87)
\* {card: count / num_draws for card, count in results.items()}
SimulatedAvg(res, m) ==
    IF res # EmptyMap /\ m = 0 THEN Raise("ZeroDivisionError")
    ELSE Ok([c \in DOMAIN res |-> Frac(res[c], m)])

\* {card: (count / total_deck_size) * hand_size for card, count in deck.items()}
ExpectedAvg(d, total, h) ==
    IF Cards(d) # {} /\ total = 0 THEN Raise("ZeroDivisionError")
    ELSE Ok([c \in Cards(d) |-> FMul(Frac(d[c], total), Frac(h, 1))])

\* ------------------------------------------------------------- the inputs
Counts == {0 - 1} \cup (0 .. MaxCount)
PlainDecks == UNION {[S -> Counts] : S \in SUBSET CardTypes}
WithNotes(d) == [c \in DOMAIN d \cup {NOTES} |-> IF c = NOTES THEN "text" ELSE d[c]]
Decks == PlainDecks \cup {WithNotes(d) : d \in PlainDecks}
HandSizes == 0 .. MaxHand
NumDraws == {0 - 1} \cup (0 .. MaxDraws)
Constraint == CardTypes \X (0 .. MaxCt) \X (0 .. MaxCt)
\* a dict has one entry per key
ConstraintSets ==
    {<<>>} \cup {<<c>> : c \in Constraint}
           \cup {<<c, d>> : <<c, d>> \in {p \in Constraint \X Constraint : p[1][1] # p[2][1]}}
Routines == {"hypergeom_pmf", "AtLeastK", "monte_carlo_simulation",
             "simulate_playable_hands_advanced"}

NoLocals ==
    /\ deck_list = EmptyMap /\ total_deck_size = 0 /\ i = 0
    /\ results = EmptyMap /\ valid_count = 0 /\ hands = <<>>
    /\ ret = Pending

Init ==
    /\ fn \in Routines
    /\ pc = "call"
    /\ NoLocals
    /\ IF fn \in {"hypergeom_pmf", "AtLeastK"}
       THEN /\ k \in 0 .. MaxN /\ K \in 0 .. MaxN /\ N \in 0 .. MaxN
            /\ hand_size \in 0 .. MaxN
            /\ deck = EmptyMap /\ num_draws = 0 /\ constraints = <<>>
       ELSE /\ k = 0 /\ K = 0 /\ N = 0
            /\ deck \in Decks
            /\ hand_size \in HandSizes
            /\ num_draws \in NumDraws
            /\ IF fn = "simulate_playable_hands_advanced"
               THEN constraints \in ConstraintSets
               ELSE constraints = <<>>

inputs == <<fn, k, K, N, deck, hand_size, num_draws, constraints>>
locals == <<deck_list, total_deck_size, i, results, valid_count, hands>>

\* ------------------------------------------------------------ the actions
hypergeom_pmf_call ==
    /\ pc = "call" /\ fn = "hypergeom_pmf"
    /\ ret' = hypergeom_pmf(k, K, hand_size, N)
    /\ pc' = "done"
    /\ UNCHANGED <<inputs, locals>>

AtLeastK_call ==
    /\ pc = "call" /\ fn = "AtLeastK"
    /\ ret' = AtLeastK(k, K, hand_size, N)
    /\ pc' = "done"
    /\ UNCHANGED <<inputs, locals>>

\* lines 66-73
mc_enter ==
    /\ pc = "call" /\ fn = "monte_carlo_simulation"
    /\ deck_list' = DeckList(deck)
    /\ total_deck_size' = TotalDeckSize(deck)
    /\ results' = EmptyMap
    /\ pc' = "loop"
    /\ UNCHANGED <<inputs, i, valid_count, hands, ret>>

\* one iteration of lines 75-79
mc_draw ==
    /\ pc = "loop" /\ fn = "monte_carlo_simulation"
    /\ i < num_draws
    /\ IF SampleRaises(deck_list, hand_size)
       THEN /\ ret' = Raise("ValueError")
            /\ pc' = "done"
            /\ UNCHANGED <<i, results, hands>>
       ELSE /\ \E hand_counts \in Samples(deck_list, hand_size) :
                 /\ results' = AddCounts(results, hand_counts)
                 /\ hands' = Append(hands, hand_counts)
            /\ i' = i + 1
            /\ UNCHANGED <<pc, ret>>
    /\ UNCHANGED <<inputs, deck_list, total_deck_size, valid_count>>

\* lines 81-89
mc_return ==
    /\ pc = "loop" /\ fn = "monte_carlo_simulation"
    /\ ~(i < num_draws)
    /\ LET simulated_avg_hand == SimulatedAvg(results, num_draws)
           expected_avg_hand == ExpectedAvg(deck, total_deck_size, hand_size)
       IN  ret' = IF simulated_avg_hand.err # "none" THEN simulated_avg_hand
                  ELSE IF expected_avg_hand.err # "none" THEN expected_avg_hand
                  ELSE Ok([deck_size |-> total_deck_size,
                           simulated_avg |-> simulated_avg_hand.val,
                           expected_avg |-> expected_avg_hand.val])
    /\ pc' = "done"
    /\ UNCHANGED <<inputs, locals>>

\* lines 93-104
sim_enter ==
    /\ pc = "call" /\ fn = "simulate_playable_hands_advanced"
    /\ deck_list' = DeckList(deck)
    /\ total_deck_size' = TotalDeckSize(deck)
    /\ IF HandTooLarge(hand_size, TotalDeckSize(deck))
       THEN /\ ret' = Ok(<<0, 0>>)
            /\ pc' = "done"
       ELSE /\ pc' = "loop"
            /\ UNCHANGED ret
    /\ valid_count' = 0
    /\ UNCHANGED <<inputs, i, results, hands>>

\* one iteration of lines 106-119
sim_draw ==
    /\ pc = "loop" /\ fn = "simulate_playable_hands_advanced"
    /\ i < num_draws
    /\ IF SampleRaises(deck_list, hand_size)
       THEN /\ ret' = Raise("ValueError")
            /\ pc' = "done"
            /\ UNCHANGED <<i, valid_count, hands>>
       ELSE /\ \E hand_counts \in Samples(deck_list, hand_size) :
                 /\ valid_count' = IF IsValid(constraints, 1, hand_counts)
                                   THEN valid_count + 1 ELSE valid_count
                 /\ hands' = Append(hands, hand_counts)
            /\ i' = i + 1
            /\ UNCHANGED <<pc, ret>>
    /\ UNCHANGED <<inputs, deck_list, total_deck_size, results>>

\* line 121
sim_return ==
    /\ pc = "loop" /\ fn = "simulate_playable_hands_advanced"
    /\ ~(i < num_draws)
    /\ ret' = Ok(<<valid_count, num_draws>>)
    /\ pc' = "done"
    /\ UNCHANGED <<inputs, locals>>

Next ==
    \/ hypergeom_pmf_call
    \/ AtLeastK_call
    \/ mc_enter
    \/ mc_draw
    \/ mc_return
    \/ sim_enter
    \/ sim_draw
    \/ sim_return

Spec == Init /\ [][Next]_vars

\* ------------------------------------------------------------- shorthand
PMF == "hypergeom_pmf"
ATLEAST == "AtLeastK"
MC == "monte_carlo_simulation"
SIM == "simulate_playable_hands_advanced"
Done(f) == fn = f /\ pc = "done"
Returned(f) == Done(f) /\ ret.err = "none"
DeckSize == TotalDeckSize(deck)
NegativeCount == \E c \in Cards(deck) : deck[c] < 0

\* C1: simulate_playable_hands_advanced called with hand_size > N draws no hand
\* and returns exactly (0, 0), whatever the deck, the constraints and num_draws.
C1_NotRunSentinel ==
    (Done(SIM) /\ hand_size > DeckSize) => (ret = Ok(<<0, 0>>) /\ hands = <<>> /\ i = 0)

C1_Witness ==
    /\ Done(SIM) /\ hand_size > DeckSize /\ num_draws >= 1
    /\ Len_deck_list(deck_list) >= hand_size
    /\ ret = Ok(<<0, 0>>)

\* C2: both Monte Carlo routines reject num_draws <= 0 (they end with an error
\* and no result), and simulate_playable_hands_advanced returns
\* total_sampled = 0 only when hand_size > N.
C2_RejectsDegenerateSampleCount ==
    /\ ((Done(MC) \/ Done(SIM)) /\ num_draws <= 0) => ret.err # "none"
    /\ (Returned(SIM) /\ ret.val[2] = 0) => hand_size > DeckSize

\* C3: monte_carlo_simulation called with hand_size > N samples nothing, never
\* returns a result and never fails with a division by zero: it ends with an
\* input error.
C3_CompositionRejectsLargeHand ==
    (fn = MC /\ hand_size > DeckSize) =>
        /\ hands = <<>>
        /\ pc = "done" => ret.err \notin {"none", "ZeroDivisionError"}

\* C4: hypergeom_pmf never raises on non-negative integers, and is 0.0 whenever
\* a binomial coefficient would choose more items than are available.
C4_PmfTotal ==
    Done(PMF) =>
        /\ ret.err = "none"
        /\ (hand_size - k > N - K \/ N - K < 0 \/ k > K \/ hand_size > N) => ret.val = FZero

\* C5: hypergeom_pmf returns exactly 0.0, without error, whenever k > K, k > n
\* or n > N.
C5_ImpossibleDrawIsZero ==
    (Done(PMF) /\ (k > K \/ k > hand_size \/ hand_size > N)) => ret = Ok(FZero)

C5_Witness ==
    /\ Done(PMF) /\ k > hand_size /\ k <= K /\ K <= N
    /\ ret = Ok(FZero)

\* the sum over kk = lo..hi of C(K, kk) * C(N - K, n - kk), a coefficient that
\* chooses more than is available (or a negative number of items) being 0
Choose0(a, b) == IF CombRaises(a, b) THEN 0 ELSE Comb(a, b)
RECURSIVE SumProducts(_, _, _, _, _)
SumProducts(lo, hi, K_, n_, N_) ==
    IF lo > hi THEN 0
    ELSE Choose0(K_, lo) * Choose0(N_ - K_, n_ - lo) + SumProducts(lo + 1, hi, K_, n_, N_)

\* C6: for K <= N and n <= N the ExactlyK probabilities summed over
\* k = 0..min(K, n) are 1, and on integers the sum of C(K, k) * C(N - K, n - k)
\* over that range is C(N, n).
C6_PmfSumsToOne ==
    (Done(ATLEAST) /\ k = 0 /\ K <= N /\ hand_size <= N) =>
        /\ ret = Ok(FOne)
        /\ SumProducts(0, Min(K, hand_size), K, hand_size, N) = Comb(N, hand_size)

C6_Witness ==
    /\ Done(ATLEAST) /\ k = 0 /\ K >= 2 /\ hand_size >= 2 /\ N - K >= 1
    /\ N - K < hand_size /\ hand_size < N
    /\ ret = Ok(FOne)

\* the number of sampled hands in which every constrained card type has its
\* count (0 when absent from the hand) within [min, max]
Satisfies(hand_counts, cs) ==
    \A idx \in 1 .. Len(cs) :
        /\ cs[idx][2] <= Get(hand_counts, cs[idx][1])
        /\ Get(hand_counts, cs[idx][1]) <= cs[idx][3]
NumSatisfying == Cardinality({j \in 1 .. Len(hands) : Satisfies(hands[j], constraints)})

\* C7: with hand_size <= N and num_draws >= 1, simulate_playable_hands_advanced
\* returns (valid_count, num_draws) where valid_count is the number of the
\* num_draws sampled hands satisfying every constraint; an empty constraint set
\* gives valid_count = num_draws, and {A: (0, 0)} on an all-A deck with
\* hand_size >= 1 gives valid_count = 0.
C7_ValidCountIsConjunction ==
    (Done(SIM) /\ hand_size <= DeckSize /\ num_draws >= 1) =>
        /\ ret.err = "none"
        /\ Len(hands) = num_draws
        /\ ret.val = <<NumSatisfying, num_draws>>
        /\ constraints = <<>> => ret.val = <<num_draws, num_draws>>
        /\ (Cards(deck) = {"A"} /\ constraints = << <<"A", 0, 0>> >> /\ hand_size >= 1)
               => ret.val[1] = 0

C7_Witness ==
    /\ Done(SIM) /\ hand_size <= DeckSize /\ num_draws = 2
    /\ Len(constraints) = 2
    /\ ret.val = <<1, 2>>
    /\ \E j \in 1 .. 2 :
          ~InRange(constraints[1][2], Get(hands[j], constraints[1][1]), constraints[1][3])

\* C8: for K <= N and n <= N, AtLeastK is non-increasing in k, and is 0.0 when
\* the range k..min(K, n) is empty.
C8_AtLeastMonotone ==
    (Done(ATLEAST) /\ K <= N /\ hand_size <= N) =>
        /\ ret.err = "none"
        /\ k > Min(K, hand_size) => ret.val = FZero
        /\ \A j \in 0 .. k :
              LET p == AtLeastK(j, K, hand_size, N)
              IN  p.err = "none" /\ FLeq(ret.val, p.val)

C8_Witness ==
    /\ Done(ATLEAST) /\ K <= N /\ hand_size <= N
    /\ k >= 1 /\ k < Min(K, hand_size)
    /\ ret.err = "none" /\ ret.val # FZero /\ ret.val # FOne
    /\ AtLeastK(k - 1, K, hand_size, N).val # ret.val

\* C9: both Monte Carlo routines fail with an error before sampling when a
\* card type of the deck has a negative count.
C9_RejectsNegativeCount ==
    ((fn = MC \/ fn = SIM) /\ NegativeCount) =>
        /\ hands = <<>>
        /\ pc = "done" => ret.err # "none"

\* the number of copies of card type c over all the hands sampled
RECURSIVE Observed(_, _)
Observed(c, hs) == IF hs = <<>> THEN 0 ELSE Get(Head(hs), c) + Observed(c, Tail(hs))

AveragesRight ==
    \A c \in DOMAIN ret.val.simulated_avg :
        ret.val.simulated_avg[c] = Frac(Observed(c, hands), num_draws)

====
